---- MODULE Spec2Model ----
(***************************************************************************)
(* Model of the ColdPress packet codec (coldpress/encode.py and            *)
(* coldpress/decode.py).                                                   *)
(*                                                                         *)
(* Redshifts are integers in units of 1e-6 ("micro").  The arithmetic the  *)
(* code does in float64 is modelled as exact arithmetic on these integers: *)
(* floor, ceil and round-half-to-even are computed as numpy computes them, *)
(* on exact quotients.  Bytes are integers in 0..255, a packet is a        *)
(* sequence of bytes (1-based here, 0-based in the code).                  *)
(*                                                                         *)
(* A call that raises is modelled by the kind of the exception it raises   *)
(* ("ValueError", "IndexError", "StructError", "TypeError") in the result  *)
(* record; kind "ok" is a normal return.                                   *)
(***************************************************************************)
EXTENDS Integers, Sequences, FiniteSets

VARIABLES
    quantiles,    \* encode_quantiles: the argument `quantiles`
    packetsize,   \* encode_quantiles: the argument `packetsize`
    validate,     \* encode_quantiles: the argument `validate`
    tolerance,    \* encode_quantiles: `tolerance`; <<>> is None, <<t>> is t
    packet,       \* the packet handed to decode_quantiles
    enc,          \* outcome of the call of encode_quantiles
    dec,          \* outcome of the call of decode_quantiles
    pc,           \* position of the caller
    data,         \* _batch_encode: the argument `data`
    ini_quantiles,\* _batch_encode: the argument `ini_quantiles`
    row,          \* _batch_encode: the loop index i, counted from 1
    Nquantiles,   \* _batch_encode: the local Nquantiles
    lastgood,     \* _batch_encode: the local lastgood; <<>> is None
    int32col,     \* _batch_encode: the array int32col, a sequence of rows of words
    exc,          \* the exception that left the batch call; "" is none
    attempts,     \* history: the encode attempts of the row's while loop so far
    zvector,      \* decode_to_binned: the argument `zvector`
    force_range,  \* decode_to_binned: the argument `force_range`
    PDF           \* decode_to_binned: the array PDF, a sequence of rows

codec == <<quantiles, packetsize, validate, tolerance, packet, enc, dec>>

batch ==
    <<data, ini_quantiles, row, Nquantiles, lastgood, int32col, exc, attempts>>

binned == <<zvector, force_range, PDF>>

vars == <<codec, pc, batch, binned>>

----------------------------------------------------------------------------
(* Program constants, in micro units where they are redshifts.             *)

\* 0.00001: the unit of eps (encode.py:84, decode.py:12)
EpsUnit == 10
\* 0.0002: the step of the endpoint codes (encode.py:66, decode.py:15)
GridStep == 200
\* 0.01: the offset of the endpoint codes (encode.py:66, decode.py:15)
GridOffset == 10000
\* 254: the largest delta written as one byte (encode.py:94)
MaxDirect == 254
\* 255: the escape marker (encode.py:97), also the largest eps code
\* (encode.py:79, encode.py:86)
Marker == 255
\* 256**2 - 1: the largest delta of an escape record (encode.py:82)
MaxEscape == 65535

----------------------------------------------------------------------------
(* Bounds of the model.                                                    *)

\* longest quantile array given to encode_quantiles
MaxQuantiles == 7
\* longest payload of a hand-made packet given to decode_quantiles
MaxRawPayload == 5

----------------------------------------------------------------------------
(* Arithmetic helpers.                                                     *)

\* np.floor(a / b) for b > 0, on the exact quotient
FloorDiv(a, b) == a \div b

\* np.ceil(a / b) for b > 0, on the exact quotient
CeilDiv(a, b) == -((-a) \div b)

\* round(a / b) for b > 0: to the nearest integer, ties to the even one
RoundHalfEven(a, b) ==
    LET q == a \div b
        r == a % b
    IN  IF 2 * r < b THEN q
        ELSE IF 2 * r > b THEN q + 1
        ELSE IF q % 2 = 0 THEN q ELSE q + 1

Max2(a, b) == IF a >= b THEN a ELSE b

Abs(a) == IF a >= 0 THEN a ELSE -a

RECURSIVE Insert(_, _)
Insert(s, x) ==
    IF s = <<>> THEN <<x>>
    ELSE IF x <= Head(s) THEN <<x>> \o s
    ELSE <<Head(s)>> \o Insert(Tail(s), x)

\* np.sort: ascending
RECURSIVE NpSort(_)
NpSort(s) == IF s = <<>> THEN <<>> ELSE Insert(NpSort(Tail(s)), Head(s))

\* s[a:b] of Python for 0 <= a, with b clipped to the length (0-based, b excluded)
Slice(s, a, b) ==
    LET hi == IF b > Len(s) THEN Len(s) ELSE b
    IN  IF a >= hi THEN <<>> ELSE SubSeq(s, a + 1, hi)

Zeros(n) == [k \in 1..n |-> 0]

\* the 0-based position that the index i of Python, negative ones counted
\* from the end, has in an array of n elements
PyIndex(n, i) == IF i < 0 THEN i + n ELSE i

\* a[i] of an array of n elements does not raise IndexError
InRange(n, i) == PyIndex(n, i) >= 0 /\ PyIndex(n, i) < n

----------------------------------------------------------------------------
(* struct.pack / struct.unpack of one unsigned 16-bit value.               *)

InU16(x) == x >= 0 /\ x <= MaxEscape

PackLEBigEndian(x) == <<x \div 256, x % 256>>

\* struct.pack('<H', x), for x in range
PackLE(x) == <<x % 256, x \div 256>>

\* struct.unpack('<H', b)
UnpackLE(b) == b[1] + 256 * b[2]

\* struct.pack('>H', x), for x in range
PackBE(x) == <<x \div 256, x % 256>>

\* struct.unpack('>H', b)
UnpackBE(b) == 256 * b[1] + b[2]

----------------------------------------------------------------------------
(* decode_quantiles (decode.py:5-36).                                      *)

OnlyCurrentZero(payload, i) == payload[i] = 0

\* max(payload[i:]) == 0, with i the 1-based position of the current byte
OnlyZerosFrom(payload, i) == \A j \in i..Len(payload) : payload[j] = 0

\* the test that ends the walk: (b == 0) and (max(payload[i:]) == 0)
EndOfPayload(payload, i) == payload[i] = 0 /\ OnlyZerosFrom(payload, i)

\* The while loop of decode_quantiles from position i (1-based) on, with the
\* deltas read so far in ds.  struct.unpack('>H', ...) of fewer than two
\* bytes raises struct.error.
RECURSIVE DecodeLoop(_, _, _)
DecodeLoop(payload, i, ds) ==
    IF i > Len(payload) THEN [kind |-> "ok", ds |-> ds]
    ELSE IF EndOfPayload(payload, i) THEN [kind |-> "ok", ds |-> ds]
    ELSE IF payload[i] < Marker
         THEN DecodeLoop(payload, i + 1, Append(ds, payload[i]))
    ELSE IF i + 2 > Len(payload) THEN [kind |-> "StructError", ds |-> ds]
    ELSE DecodeLoop(payload, i + 3,
                    Append(ds, UnpackBE(SubSeq(payload, i + 1, i + 2))))

\* zs.append(zs[-1] + d * eps), from zmin on: the running sums
RECURSIVE Accumulate(_, _, _)
Accumulate(start, ds, eps) ==
    IF ds = <<>> THEN <<>>
    ELSE <<start + Head(ds) * eps>>
         \o Accumulate(start + Head(ds) * eps, Tail(ds), eps)

\* decode_quantiles(packet).  packet[0] of an empty packet raises IndexError,
\* struct.unpack('<HH', packet[1:5]) of a packet shorter than 5 bytes raises
\* struct.error.
DecodeQuantiles(p) ==
    IF Len(p) = 0 THEN [kind |-> "IndexError", zs |-> <<>>, ds |-> <<>>]
    ELSE IF Len(p) < 5 THEN [kind |-> "StructError", zs |-> <<>>, ds |-> <<>>]
    ELSE
    LET eps_int  == p[1]
        eps      == eps_int * EpsUnit
        xmin_int == UnpackLE(SubSeq(p, 2, 3))
        xmax_int == UnpackLE(SubSeq(p, 4, 5))
        zmin     == xmin_int * GridStep - GridOffset
        zmax     == xmax_int * GridStep - GridOffset
        payload  == Slice(p, 5, Len(p))
        walk     == DecodeLoop(payload, 1, <<>>)
    IN  IF walk.kind # "ok"
        THEN [kind |-> walk.kind, zs |-> <<>>, ds |-> walk.ds]
        ELSE [kind |-> "ok",
              zs   |-> <<zmin>> \o Accumulate(zmin, walk.ds, eps) \o <<zmax>>,
              ds   |-> walk.ds]

----------------------------------------------------------------------------
(* encode_quantiles (encode.py:49-119).                                    *)

\* quantiles[1:-1] - quantiles[:-2]: the gap in front of each interior quantile
Gaps(q) == [k \in 1..(IF Len(q) >= 2 THEN Len(q) - 2 ELSE 0) |-> q[k + 1] - q[k]]

\* quantiles[1:-1]
Interior(q) == IF Len(q) >= 2 THEN SubSeq(q, 2, Len(q) - 1) ELSE <<>>

MaxBigGapsNoHeader(Nq, L) == FloorDiv(L - Nq, 2)

\* max_big_gaps = (packetsize-(Nq+3)) // 2
MaxBigGaps(Nq, L) == FloorDiv(L - (Nq + 3), 2)

\* 100000 * eps_min, with eps_min = 0.00001*np.ceil(100000*gapthreshold/254)
EpsMinCode(gapthreshold) == CeilDiv(gapthreshold, MaxDirect * EpsUnit)

\* 100000 * eps_min2, with eps_min2 = 0.00001*np.ceil(100000*gaps[-1]/(256**2 -1))
EpsMin2Code(maxgap) == CeilDiv(maxgap, MaxEscape * EpsUnit)

EpsCodeOneByteBoundOnly(e1, e2) == Max2(1, e1)

\* int(np.round(eps*100000)), with eps = np.max([0.00001,eps_min,eps_min2])
EpsCode(e1, e2) == Max2(1, Max2(e1, e2))

\* d = int(round((z - prev) / eps))
Delta(z, prev, eps) == RoundHalfEven(z - prev, eps)

DeltaRecordMarkerDirect(d) ==
    IF 0 <= d /\ d <= Marker THEN <<d>>
    ELSE <<Marker, d \div 256, d % 256>>

\* the record one delta is written as: the if/else of encode.py:94-98
\* (struct.pack raises for a d outside 0..65535: see PayloadLoop)
DeltaRecord(d) ==
    IF 0 <= d /\ d <= MaxDirect THEN <<d>> ELSE <<Marker>> \o PackBE(d)

RECURSIVE PayloadLoopFromOriginal(_, _, _, _, _, _)
PayloadLoopFromOriginal(zs, prev, eps, payload, ds, prevs) ==
    IF zs = <<>>
    THEN [kind |-> "ok", payload |-> payload, ds |-> ds, prevs |-> prevs]
    ELSE LET d == RoundHalfEven(Head(zs) - prev, eps)
         IN  IF d < 0 \/ d > MaxEscape
             THEN [kind |-> "StructError", payload |-> Append(payload, Marker),
                   ds |-> Append(ds, d), prevs |-> prevs]
             ELSE PayloadLoopFromOriginal(Tail(zs), Head(zs), eps,
                      payload \o (IF d <= MaxDirect THEN <<d>>
                                  ELSE <<Marker, d \div 256, d % 256>>),
                      Append(ds, d), Append(prevs, Head(zs)))

\* The for loop over quantiles[1:-1] (encode.py:92-99), from the zs still to
\* do, the running value prev, the payload and the deltas so far.
RECURSIVE PayloadLoop(_, _, _, _, _, _)
PayloadLoop(zs, prev, eps, payload, ds, prevs) ==
    IF zs = <<>>
    THEN [kind |-> "ok", payload |-> payload, ds |-> ds, prevs |-> prevs]
    ELSE LET d == Delta(Head(zs), prev, eps)
         IN  IF ~(0 <= d /\ d <= MaxDirect) /\ ~InU16(d)
             THEN [kind |-> "StructError", payload |-> Append(payload, Marker),
                   ds |-> Append(ds, d), prevs |-> prevs]
             ELSE PayloadLoop(Tail(zs), prev + d * eps, eps,
                              payload \o DeltaRecord(d), Append(ds, d),
                              Append(prevs, prev + d * eps))

PayloadFitsOffByOne(plen, L) == plen <= L - 4

\* if L > packetsize-5: raise; this is the negation of that test
PayloadFits(plen, L) == plen <= L - 5

AssemblePacketNoEps(code, xmin_int, xmax_int, payload, L) ==
    <<0>> \o PackLE(xmin_int) \o PackLE(xmax_int) \o payload
    \o Slice(Zeros(L), 5 + Len(payload), L)

\* packet = bytearray(packetsize) and the four assignments into it
\* (encode.py:105-109); a slice assignment of Python replaces the slice by
\* the payload, whatever its length
AssemblePacket(code, xmin_int, xmax_int, payload, L) ==
    LET header == <<code>> \o PackLE(xmin_int) \o PackLE(xmax_int)
        blank  == Zeros(L)
    IN  header \o payload \o Slice(blank, 5 + Len(payload), L)

\* the outcome of a call that raised: nothing is returned; info is what the
\* call had computed by then
Raised(kind, step, info) ==
    [kind |-> kind, step |-> step, L |-> 0, packet |-> <<>>, info |-> info]

\* the locals of a call that has computed nothing yet
NoInfo ==
    [eps_code |-> 0, max_big_gaps |-> 0, xmin_int |-> 0, xmax_int |-> 0,
     ds |-> <<>>, prevs |-> <<>>, payload |-> <<>>]

\* the validation of encode.py:111-117 on the finished packet p:
\* "ok", or the kind of the exception and the check that raised it
Validation(q, p, tol) ==
    LET r == DecodeQuantiles(p)
    IN  IF r.kind # "ok" THEN <<r.kind, "decode">>
        ELSE IF Len(r.zs) # Len(q) THEN <<"ValueError", "count">>
        ELSE IF Len(q) <= 2 THEN <<"ValueError", "max_of_empty">>
        ELSE IF tol = <<>> THEN <<"TypeError", "tolerance_none">>
        ELSE IF \E k \in 2..(Len(q) - 1) : Abs(q[k] - r.zs[k]) > tol[1]
             THEN <<"ValueError", "tolerance">>
        ELSE <<"ok", "ok">>

TooManyOffByOne(Nq, L) == Nq > L - 2

\* if Nq > packetsize-3: raise (encode.py:60)
TooMany(Nq, L) == Nq > L - 3

EncodeQuantiles(q, L, val, tol) ==
    LET Nq == Len(q)
    IN
    IF TooMany(Nq, L) THEN Raised("ValueError", "too_many", NoInfo)
    ELSE IF Nq = 0 THEN Raised("IndexError", "endpoints", NoInfo)
    ELSE
    LET zmin     == q[1]
        zmax     == q[Nq]
        xmin_int == FloorDiv(zmin + GridOffset, GridStep)
        xmax_int == CeilDiv(zmax + GridOffset, GridStep)
        zmin_rec == xmin_int * GridStep - GridOffset
        mbg      == MaxBigGaps(Nq, L)
        gaps     == NpSort(Gaps(q))
        info0    == [NoInfo EXCEPT !.max_big_gaps = mbg, !.xmin_int = xmin_int,
                                   !.xmax_int = xmax_int]
    IN
    IF ~InRange(Len(gaps), -mbg - 1)
    THEN Raised("IndexError", "gapthreshold", info0)
    ELSE
    LET gapthreshold == gaps[PyIndex(Len(gaps), -mbg - 1) + 1]
        e1           == EpsMinCode(gapthreshold)
    IN
    IF e1 > Marker THEN Raised("ValueError", "eps_min", info0)
    ELSE
    LET code  == EpsCode(e1, EpsMin2Code(gaps[Len(gaps)]))
        info1 == [info0 EXCEPT !.eps_code = code]
    IN
    IF code > Marker THEN Raised("ValueError", "eps_code", info1)
    ELSE
    LET eps   == code * EpsUnit
        loop  == PayloadLoop(Interior(q), zmin_rec, eps, <<>>, <<>>, <<>>)
        info2 == [info1 EXCEPT !.ds = loop.ds, !.prevs = loop.prevs,
                               !.payload = loop.payload]
        plen  == Len(loop.payload)
    IN
    IF loop.kind # "ok" THEN Raised(loop.kind, "pack_delta", info2)
    ELSE IF ~PayloadFits(plen, L)
         THEN Raised("ValueError", "payload_too_long", info2)
    ELSE IF ~InU16(xmin_int) \/ ~InU16(xmax_int)
         THEN Raised("StructError", "pack_endpoint", info2)
    ELSE
    LET p == AssemblePacket(code, xmin_int, xmax_int, loop.payload, L)
        v == IF val THEN Validation(q, p, tol) ELSE <<"ok", "ok">>
    IN
    IF v[1] # "ok" THEN Raised(v[1], v[2], info2)
    ELSE [kind |-> "ok", step |-> "return", L |-> plen, packet |-> p,
          info |-> info2]

----------------------------------------------------------------------------
(* The calls of the codec: encode_quantiles on a quantile array, then      *)
(* decode_quantiles on the packet it returned.                             *)

\* redshifts (micro) the quantile arrays are made of: the one with endpoint
\* code 0 (-10000), on and off the endpoint grid, off the eps grid (5), gaps
\* that need an escape record (2554, 6200), a gap of 65535 eps steps and
\* more (190 to 655540), and a gap no eps of one byte covers in two bytes
\* (200.0)
ZValues == {-10000, 0, 5, 190, 2554, 6200, 655540, 200000000}

PacketSizes == {6, 8, 12}

\* (validate, tolerance) of a call: encode_quantiles' defaults are
\* (True, 0.001), _batch_encode passes its own defaults (None, None);
\* a validate of None is false where it is tested (encode.py:111)
Options == {<<FALSE, <<>>>>, <<TRUE, <<1000>>>>, <<TRUE, <<4>>>>, <<TRUE, <<>>>>}

\* the non-decreasing arrays of n values of ZValues
RECURSIVE NonDecreasing(_)
NonDecreasing(n) ==
    IF n = 0 THEN {<<>>}
    ELSE UNION {{Append(s, v) : v \in {w \in ZValues : s = <<>> \/ w >= s[Len(s)]}}
                : s \in NonDecreasing(n - 1)}

\* the arrays tried with a packet of L bytes: up to one more than fits
QuantileArrays(L) ==
    UNION {NonDecreasing(n) :
           n \in 0..(IF L - 2 < MaxQuantiles THEN L - 2 ELSE MaxQuantiles)}

NoCall == Raised("none", "none", NoInfo)

NoDecode == [kind |-> "none", zs |-> <<>>, ds |-> <<>>]

NoData == [format |-> "none", zvector |-> <<>>, PDF |-> <<>>, samples |-> <<>>]

\* no batch call is in progress
NoBatch ==
    /\ data = NoData
    /\ ini_quantiles = 0
    /\ row = 0
    /\ Nquantiles = 0
    /\ lastgood = <<>>
    /\ int32col = <<>>
    /\ exc = ""
    /\ attempts = <<>>
    /\ zvector = <<>>
    /\ force_range = FALSE
    /\ PDF = <<>>

Init ==
    /\ packetsize \in PacketSizes
    /\ quantiles \in QuantileArrays(packetsize)
    /\ \E o \in Options : validate = o[1] /\ tolerance = o[2]
    /\ packet = <<>>
    /\ enc = NoCall
    /\ dec = NoDecode
    /\ pc = "call"
    /\ NoBatch

\* payload_length, packet = encode_quantiles(quantiles, packetsize, validate, tolerance)
Encode ==
    /\ pc = "call"
    /\ enc' = EncodeQuantiles(quantiles, packetsize, validate, tolerance)
    /\ packet' = enc'.packet
    /\ pc' = IF enc'.kind = "ok" THEN "encoded" ELSE "raised"
    /\ UNCHANGED <<quantiles, packetsize, validate, tolerance, dec, batch, binned>>

\* qrecovered = decode_quantiles(packet)
Decode ==
    /\ pc \in {"encoded", "packet"}
    /\ dec' = DecodeQuantiles(packet)
    /\ pc' = "decoded"
    /\ UNCHANGED <<quantiles, packetsize, validate, tolerance, packet, enc, batch,
                   binned>>

Next == Encode \/ Decode

Spec == Init /\ [][Next]_vars

----------------------------------------------------------------------------
(* encode_quantiles in float64, one turn of the payload loop at a time     *)
(* (encode.py:89-99).  The operators above compute (z - prev) / eps        *)
(* exactly.  In float64 zmin_rec, eps, prev and the quotient are each      *)
(* rounded, so a quotient that is exactly n + 1/2 comes out a few ulps     *)
(* above or below the tie, and round() takes it to n + 1 or to n: for      *)
(* quantiles [0.2716, 0.27649, 0.27649, 0.28049, 0.28157] and packetsize 8 *)
(* the quotients are 244.50000000000026 and then -0.5000000000005.  Away   *)
(* from a tie the rounding errors do not change the rounded value.         *)

\* int(round((z - prev) / eps)) in float64: the values it can take
DeltaFloat64(z, prev, eps) ==
    LET lo == FloorDiv(z - prev, eps)
    IN  IF 2 * ((z - prev) - lo * eps) = eps THEN {lo, lo + 1}
        ELSE {Delta(z, prev, eps)}

\* redshifts (micro) of the arrays of the float64 runs: 0.2716 is on the
\* endpoint grid, 0.27649 is 244.5 steps of eps = 0.00002 above it
FloatValues == {271600, 276490, 280490, 281570}

\* the non-decreasing arrays of n values of FloatValues
RECURSIVE FloatArrays(_)
FloatArrays(n) ==
    IF n = 0 THEN {<<>>}
    ELSE UNION {{Append(s, v) : v \in {w \in FloatValues : s = <<>> \/ w >= s[Len(s)]}}
                : s \in FloatArrays(n - 1)}

FloatInit ==
    /\ packetsize = 8
    /\ quantiles \in UNION {FloatArrays(n) : n \in 3..(packetsize - 3)}
    /\ validate = FALSE
    /\ tolerance = <<>>
    /\ packet = <<>>
    /\ enc = NoCall
    /\ dec = NoDecode
    /\ data = NoData
    /\ NoBatch
    /\ zvector = <<>>
    /\ force_range = FALSE
    /\ PDF = <<>>
    /\ pc = "call"

\* encode.py:59-91: everything in front of the payload loop
BeginPayload ==
    /\ pc = "call"
    /\ LET res == EncodeQuantiles(quantiles, packetsize, validate, tolerance)
       IN  IF res.step \in {"too_many", "endpoints", "gapthreshold", "eps_min",
                            "eps_code"}
           THEN /\ enc' = res
                /\ pc' = "raised"
           ELSE /\ enc' = [kind |-> "none", step |-> "pack_delta", L |-> 0,
                           packet |-> <<>>,
                           info |-> [res.info EXCEPT !.ds = <<>>,
                                                     !.prevs = <<>>,
                                                     !.payload = <<>>]]
                /\ pc' = "payload"
    /\ UNCHANGED <<quantiles, packetsize, validate, tolerance, packet, dec, batch,
                   binned>>

\* encode.py:92-99: one turn of the for loop over quantiles[1:-1]
NextDelta ==
    /\ pc = "payload"
    /\ Len(enc.info.ds) < Len(Interior(quantiles))
    /\ LET k    == Len(enc.info.ds) + 1
           z    == Interior(quantiles)[k]
           eps  == enc.info.eps_code * EpsUnit
           prev == IF k = 1 THEN enc.info.xmin_int * GridStep - GridOffset
                   ELSE enc.info.prevs[k - 1]
       IN  \E d \in DeltaFloat64(z, prev, eps) :
               IF ~(0 <= d /\ d <= MaxDirect) /\ ~InU16(d)
               THEN /\ enc' = Raised("StructError", "pack_delta",
                                     [enc.info EXCEPT
                                         !.ds = Append(@, d),
                                         !.payload = Append(@, Marker)])
                    /\ pc' = "raised"
               ELSE /\ enc' = [enc EXCEPT
                                  !.info.ds = Append(@, d),
                                  !.info.prevs = Append(@, prev + d * eps),
                                  !.info.payload = @ \o DeltaRecord(d)]
                    /\ pc' = "payload"
    /\ UNCHANGED <<quantiles, packetsize, validate, tolerance, packet, dec, batch,
                   binned>>

\* encode.py:101-119: the length check, the packet and the return
EndPayload ==
    /\ pc = "payload"
    /\ Len(enc.info.ds) = Len(Interior(quantiles))
    /\ LET plen == Len(enc.info.payload)
       IN  IF ~PayloadFits(plen, packetsize)
           THEN /\ enc' = Raised("ValueError", "payload_too_long", enc.info)
                /\ pc' = "raised"
           ELSE IF ~InU16(enc.info.xmin_int) \/ ~InU16(enc.info.xmax_int)
           THEN /\ enc' = Raised("StructError", "pack_endpoint", enc.info)
                /\ pc' = "raised"
           ELSE /\ enc' = [kind |-> "ok", step |-> "return", L |-> plen,
                           packet |-> AssemblePacket(enc.info.eps_code,
                                                     enc.info.xmin_int,
                                                     enc.info.xmax_int,
                                                     enc.info.payload,
                                                     packetsize),
                           info |-> enc.info]
                /\ pc' = "encoded"
    /\ packet' = enc'.packet
    /\ UNCHANGED <<quantiles, packetsize, validate, tolerance, dec, batch, binned>>

FloatNext == BeginPayload \/ NextDelta \/ EndPayload

FloatSpec == FloatInit /\ [][FloatNext]_vars

----------------------------------------------------------------------------
(* decode_quantiles on packets that no encoder made.                       *)

\* the bytes the hand-made payloads are made of
RawBytes == {0, 1, 5, 10, 44, 255}

\* the headers of the hand-made packets: all zero, and eps code 1 with zmin 0.0
\* and zmax 0.0062
RawHeaders == {<<0, 0, 0, 0, 0>>, <<1, 50, 0, 81, 0>>}

RECURSIVE RawPayloads(_)
RawPayloads(n) ==
    IF n = 0 THEN {<<>>}
    ELSE {<<>>} \cup {<<b>> \o s : b \in RawBytes, s \in RawPayloads(n - 1)}

\* the packets: every header cut short, and every header with every payload
RawPackets ==
    {SubSeq(h, 1, n) : h \in RawHeaders, n \in 0..4}
    \cup {h \o s : h \in RawHeaders, s \in RawPayloads(MaxRawPayload)}

RawInit ==
    /\ packet \in RawPackets
    /\ packetsize = Len(packet)
    /\ quantiles = <<>>
    /\ validate = FALSE
    /\ tolerance = <<>>
    /\ enc = NoCall
    /\ dec = NoDecode
    /\ pc = "packet"
    /\ NoBatch

RawNext == Decode

RawSpec == RawInit /\ [][RawNext]_vars

----------------------------------------------------------------------------
(* binned_to_quantiles (encode.py:12-46).  Densities are integers; the     *)
(* quantiles, which numpy interpolates in float64, are computed exactly    *)
(* and rounded down to the micro.                                          *)

\* np.where(Pz > 0)[0], as a set of 1-based indices
NonZero(Pz) == {k \in 1..Len(Pz) : Pz[k] > 0}

SetMin(S) == CHOOSE x \in S : \A y \in S : x <= y

SetMax(S) == CHOOSE x \in S : \A y \in S : x >= y

\* np.linspace(lo, lo + width, N) for N >= 0
Linspace(lo, width, N) ==
    [k \in 1..N |-> IF N = 1 THEN lo ELSE lo + FloorDiv((k - 1) * width, N - 1)]

\* np.cumsum(Pz * dz) behind a leading 0, in units of dz: C[j + 1] is cdf_edges[j]
\* before its division by cdf_edges[-1]
RECURSIVE CumSum(_, _)
CumSum(Pz, j) == IF j = 0 THEN 0 ELSE CumSum(Pz, j - 1) + Pz[j]

\* np.interp(k/(N-1), cdf_edges, edges) for the target of index k (0-based):
\* n bins, C(j) the cumulated density in front of edge j (0-based), e0 the
\* first edge
Interp(k, N, Pz, e0, dz) ==
    LET n     == Len(Pz)
        total == CumSum(Pz, n)
    IN  IF N >= 2 /\ k = N - 1 THEN e0 + n * dz
        ELSE
        LET den == IF N = 1 THEN 1 ELSE N - 1
            j   == SetMax({x \in 0..(n - 1) : CumSum(Pz, x) * den <= k * total})
        IN  e0 + j * dz
               + FloorDiv(dz * (k * total - CumSum(Pz, j) * den),
                          den * (CumSum(Pz, j + 1) - CumSum(Pz, j)))

\* binned_to_quantiles(z_grid, Pz, Nquantiles): kind "ok" and the quantiles,
\* or the exception numpy raises: np.min of an empty array for a row without
\* a positive bin, np.linspace for a negative Nquantiles
BinnedToQuantiles(z_grid, Pz, N) ==
    LET nonzero == NonZero(Pz)
    IN  IF Cardinality(nonzero) = 1
        THEN LET dz == z_grid[2] - z_grid[1]
                 z  == z_grid[SetMin(nonzero)]
             IN  IF N < 0 THEN [kind |-> "ValueError", qs |-> <<>>]
                 ELSE [kind |-> "ok", qs |-> Linspace(z - dz \div 2, dz, N)]
        ELSE IF nonzero = {} THEN [kind |-> "ValueError", qs |-> <<>>]
        ELSE
        LET imin == SetMin(nonzero)
            imax == SetMax(nonzero)
            zg   == SubSeq(z_grid, imin, imax)
            P    == SubSeq(Pz, imin, imax)
            dz   == zg[2] - zg[1]
            e0   == zg[1] - dz \div 2
        IN  IF N < 0 THEN [kind |-> "ValueError", qs |-> <<>>]
            ELSE [kind |-> "ok",
                  qs   |-> [k \in 1..N |-> Interp(k - 1, N, P, e0, dz)]]

----------------------------------------------------------------------------
(* samples_to_quantiles (encode.py:4-9).  A sample is a record: finite     *)
(* tells np.isfinite of it, z is its value (micro) when it is finite.      *)

\* samples[valid], with valid = np.isfinite(samples)
FiniteOnly(samples) == SelectSeq(samples, LAMBDA x : x.finite)

\* the values of a row of finite samples
ValuesOf(samples) == [k \in 1..Len(samples) |-> samples[k].z]

\* np.quantile(zsorted, k/(N-1), method='linear') for target k (0-based) of N:
\* the value at the virtual index (n-1)*k/(N-1) of the n sorted values,
\* interpolated between its neighbours and rounded down to the micro
QuantileAt(zsorted, k, N) ==
    LET n   == Len(zsorted)
        den == IF N = 1 THEN 1 ELSE N - 1
        j   == ((n - 1) * k) \div den
        f   == ((n - 1) * k) % den
    IN  IF f = 0 THEN zsorted[j + 1]
        ELSE zsorted[j + 1]
             + FloorDiv(f * (zsorted[j + 2] - zsorted[j + 1]), den)

\* samples_to_quantiles(samples, Nquantiles), for a row with a finite sample;
\* np.linspace raises ValueError for a negative Nquantiles
SamplesToQuantiles(samples, N) ==
    LET zsorted == NpSort(ValuesOf(FiniteOnly(samples)))
    IN  IF N < 0 THEN [kind |-> "ValueError", qs |-> <<>>]
        ELSE [kind |-> "ok",
              qs   |-> [k \in 1..N |-> QuantileAt(zsorted, k - 1, N)]]

----------------------------------------------------------------------------
(* _batch_encode (encode.py:121-172), called by encode_from_binned and by  *)
(* encode_from_samples.                                                    *)

ToWordLittleEndian(b) ==
    (IF b[4] >= 128 THEN b[4] - 256 ELSE b[4]) * 16777216
    + b[3] * 65536 + b[2] * 256 + b[1]

\* one big-endian signed 32-bit word of np.frombuffer(packet, dtype='>i4')
ToWord(b) ==
    (IF b[1] >= 128 THEN b[1] - 256 ELSE b[1]) * 16777216
    + b[2] * 65536 + b[3] * 256 + b[4]

\* the four bytes of a word: int32col[i].tobytes()
FromWord(w) ==
    <<(w \div 16777216) % 256, (w \div 65536) % 256, (w \div 256) % 256, w % 256>>

\* np.frombuffer(packet, dtype='>i4'), for a packet of a multiple of 4 bytes
ToWords(p) == [k \in 1..(Len(p) \div 4) |-> ToWord(SubSeq(p, 4 * k - 3, 4 * k))]

RECURSIVE FromWords(_)
FromWords(ws) ==
    IF ws = <<>> THEN <<>> ELSE FromWord(Head(ws)) \o FromWords(Tail(ws))

ValidAlways(Pz) == TRUE

\* valid = np.sum(data['PDF'],axis=1) > 0, for one row
Valid(Pz) == CumSum(Pz, Len(Pz)) > 0

AnyFinite(samples) == \E k \in 1..Len(samples) : samples[k].finite

\* valid = np.all(np.isfinite(data['samples']), axis=1), for one row
AllFinite(samples) == \A k \in 1..Len(samples) : samples[k].finite

\* len(valid): the number of rows of the data
NumRows(d) == IF d.format = "samples" THEN Len(d.samples) ELSE Len(d.PDF)

\* valid[i] (encode.py:133-136), i counted from 1
RowValid(d, i) ==
    IF d.format = "samples" THEN AllFinite(d.samples[i]) ELSE Valid(d.PDF[i])

\* the quantiles of row i (encode.py:147-150)
Extract(d, i, N) ==
    IF d.format = "samples" THEN SamplesToQuantiles(d.samples[i], N)
    ELSE BinnedToQuantiles(d.zvector, d.PDF[i], N)

\* the grid of the histograms: bins 0.1 wide centred on 0.05, 0.15, ..., 0.85
ZVector == [k \in 1..9 |-> 100000 * k - 50000]

\* the histogram rows: no mass; one bin; two bins 0.7 apart; a smooth bump
Histograms ==
    { <<0, 0, 0, 0, 0, 0, 0, 0, 0>>,
      <<0, 0, 1, 0, 0, 0, 0, 0, 0>>,
      <<1, 0, 0, 0, 0, 0, 0, 0, 1>>,
      <<0, 1, 3, 1, 0, 0, 0, 0, 0>> }

\* longest batch
MaxRows == 2

RECURSIVE RowSeqs(_)
RowSeqs(n) ==
    IF n = 0 THEN {<<>>}
    ELSE {<<>>} \cup {<<h>> \o s : h \in Histograms, s \in RowSeqs(n - 1)}

\* (packetsize, ini_quantiles) of a batch call: the packet sizes 8 and 12 with
\* every guess from 3 to one more than fits, and a size that is no multiple of 4
BatchSizes ==
    {<<L, ini>> \in {8, 12} \X (3..10) : ini <= L - 2} \cup {<<10, 5>>}

BatchInit ==
    /\ data \in {[format |-> "PDF_histogram", zvector |-> ZVector, PDF |-> rows,
                  samples |-> <<>>] : rows \in RowSeqs(MaxRows)}
    /\ \E a \in BatchSizes : packetsize = a[1] /\ ini_quantiles = a[2]
    /\ \E o \in Options : validate = o[1] /\ tolerance = o[2]
    /\ quantiles = <<>>
    /\ packet = <<>>
    /\ enc = NoCall
    /\ dec = NoDecode
    /\ row = 0
    /\ Nquantiles = 0
    /\ lastgood = <<>>
    /\ int32col = <<>>
    /\ exc = ""
    /\ attempts = <<>>
    /\ zvector = <<>>
    /\ force_range = FALSE
    /\ PDF = <<>>
    /\ pc = "batch_call"

\* encode.py:127-138: the checks of the arguments and the output array
BatchCall ==
    /\ pc = "batch_call"
    /\ IF packetsize % 4 # 0 \/ packetsize - ini_quantiles < 3
       THEN /\ exc' = "ValueError"
            /\ pc' = "batch_raised"
            /\ UNCHANGED <<int32col, row>>
       ELSE /\ int32col' = [k \in 1..NumRows(data) |-> Zeros(packetsize \div 4)]
            /\ row' = 1
            /\ pc' = "row"
            /\ UNCHANGED exc
    /\ UNCHANGED <<codec, data, ini_quantiles, Nquantiles, lastgood, attempts,
                   binned>>

CarryBest(best) == best

\* lastgood = None (encode.py:145), whatever lastgood was
StartBest(best) == <<>>

\* encode.py:140-145 and 172: the head of the for loop
NextRow ==
    /\ pc = "row"
    /\ IF row > NumRows(data)
       THEN /\ pc' = "batch_done"
            /\ UNCHANGED <<row, Nquantiles, lastgood, attempts>>
       ELSE IF ~RowValid(data, row)
       THEN /\ row' = row + 1
            /\ pc' = "row"
            /\ UNCHANGED <<Nquantiles, lastgood, attempts>>
       ELSE /\ Nquantiles' = ini_quantiles
            /\ lastgood' = StartBest(lastgood)
            /\ attempts' = <<>>
            /\ pc' = "attempt"
            /\ UNCHANGED row
    /\ UNCHANGED <<codec, data, ini_quantiles, int32col, exc, binned>>

RetreatByOne(N) == N - 1

\* Nquantiles -= 2 (encode.py:159)
Retreat(N) == N - 2

AdvanceByFour(N) == N + 4

\* Nquantiles += 2 (encode.py:164)
Advance(N) == N + 2

RememberFirst(best, p) == IF best = <<>> THEN p ELSE best

\* lastgood = packet (encode.py:163)
Remember(best, p) == p

HasBestNever(best) == FALSE

\* lastgood is not None (encode.py:155)
HasBest(best) == best # <<>>

\* the entry of the history for the attempt with N quantiles that ended as res
Attempted(N, res) ==
    [M |-> N, kind |-> res.kind, L |-> res.L, packet |-> res.packet]

\* encode.py:146-168: one turn of the while loop
Attempt ==
    /\ pc = "attempt"
    /\ LET ext == Extract(data, row, Nquantiles)
           res == EncodeQuantiles(ext.qs, packetsize, validate, tolerance)
       IN  IF ext.kind # "ok"
           THEN /\ exc' = ext.kind
                /\ pc' = "batch_raised"
                /\ UNCHANGED <<quantiles, enc, packet, Nquantiles, lastgood,
                               attempts>>
           ELSE
           /\ quantiles' = ext.qs
           /\ enc' = res
           /\ attempts' = Append(attempts, Attempted(Nquantiles, res))
           /\ IF res.kind = "ValueError"
              THEN IF HasBest(lastgood)
                   THEN /\ packet' = lastgood
                        /\ pc' = "store"
                        /\ UNCHANGED <<Nquantiles, lastgood, exc>>
                   ELSE /\ Nquantiles' = Retreat(Nquantiles)
                        /\ pc' = "attempt"
                        /\ UNCHANGED <<packet, lastgood, exc>>
              ELSE IF res.kind # "ok"
              THEN /\ exc' = res.kind
                   /\ pc' = "batch_raised"
                   /\ UNCHANGED <<packet, Nquantiles, lastgood>>
              ELSE
              /\ packet' = res.packet
              /\ IF res.L < packetsize - 5
                 THEN /\ lastgood' = Remember(lastgood, res.packet)
                      /\ Nquantiles' = Advance(Nquantiles)
                      /\ pc' = "attempt"
                 ELSE IF res.L = packetsize - 5
                 THEN /\ pc' = "store"
                      /\ UNCHANGED <<Nquantiles, lastgood>>
                 ELSE /\ pc' = "attempt"
                      /\ UNCHANGED <<Nquantiles, lastgood>>
              /\ UNCHANGED exc
    /\ UNCHANGED <<packetsize, validate, tolerance, dec, data, ini_quantiles,
                   row, int32col, binned>>

\* encode.py:170: int32col[i] = np.frombuffer(packet, dtype='>i4')
StoreRow ==
    /\ pc = "store"
    /\ int32col' = [int32col EXCEPT ![row] = ToWords(packet)]
    /\ row' = row + 1
    /\ pc' = "row"
    /\ UNCHANGED <<codec, data, ini_quantiles, Nquantiles, lastgood, exc,
                   attempts, binned>>

BatchNext == BatchCall \/ NextRow \/ Attempt \/ StoreRow

BatchSpec == BatchInit /\ [][BatchNext]_vars

\* the call runs on: the interpreter takes the next step of _batch_encode
\* whenever there is one.  A turn of the while loop can be taken exactly when
\* the call is in the loop, and every turn changes pc or adds to attempts, so
\* weak fairness of Attempt is stated with pc = "attempt" for its enabling
\* condition.
FairBatchSpec ==
    /\ BatchSpec
    /\ WF_vars(BatchCall)
    /\ WF_vars(NextRow)
    /\ WF_vars(StoreRow)
    /\ ([]<>(pc # "attempt") \/ []<><<Attempt>>_vars)

----------------------------------------------------------------------------
(* _batch_encode as encode_from_samples calls it (encode.py:184-189).      *)

\* a finite sample of value z
Sample(z) == [finite |-> TRUE, z |-> z]

\* a sample that is nan or infinite
NonFinite == [finite |-> FALSE, z |-> 0]

\* the rows of samples, three to a row: all finite; one and two of them not
\* finite; none finite
SampleRows ==
    { <<Sample(400000), Sample(100000), Sample(200000)>>,
      <<Sample(100000), NonFinite, Sample(300000)>>,
      <<NonFinite, Sample(250000), NonFinite>>,
      <<NonFinite, NonFinite, NonFinite>> }

RECURSIVE SampleSeqs(_)
SampleSeqs(n) ==
    IF n = 0 THEN {<<>>}
    ELSE {<<>>} \cup {<<r>> \o s : r \in SampleRows, s \in SampleSeqs(n - 1)}

SamplesInit ==
    /\ data \in {[format |-> "samples", zvector |-> <<>>, PDF |-> <<>>,
                  samples |-> rows] : rows \in SampleSeqs(MaxRows)}
    /\ \E a \in BatchSizes : packetsize = a[1] /\ ini_quantiles = a[2]
    /\ \E o \in Options : validate = o[1] /\ tolerance = o[2]
    /\ quantiles = <<>>
    /\ packet = <<>>
    /\ enc = NoCall
    /\ dec = NoDecode
    /\ row = 0
    /\ Nquantiles = 0
    /\ lastgood = <<>>
    /\ int32col = <<>>
    /\ exc = ""
    /\ attempts = <<>>
    /\ zvector = <<>>
    /\ force_range = FALSE
    /\ PDF = <<>>
    /\ pc = "batch_call"

SamplesSpec == SamplesInit /\ [][BatchNext]_vars

----------------------------------------------------------------------------
(* quantiles_to_binned (decode.py:38-123) as decode_to_binned calls it:    *)
(* with zvector, method 'linear'.  Cumulative probabilities are integers   *)
(* in units of 1/ProbScale, rounded down; a row of the result is the       *)
(* normalised pdf times dz, in the same units.                             *)

\* resolution of the probabilities of the model
ProbScale == 1000

\* np.interp(x, zq, Fq, left=0.0, right=1.0) with Fq = np.linspace(0, 1, M),
\* times ProbScale.  numpy searches zq as if it were sorted; the segment taken
\* here is the last one that starts at or below x.
InterpCdf(x, zq) ==
    LET M == Len(zq)
    IN  IF x > zq[M] THEN ProbScale
        ELSE IF x < zq[1] THEN 0
        ELSE
        LET j == SetMax({k \in 1..M : zq[k] <= x})
        IN  IF j = M THEN ProbScale
            ELSE FloorDiv(ProbScale * (j - 1), M - 1)
                 + FloorDiv(ProbScale * (x - zq[j]), (M - 1) * (zq[j + 1] - zq[j]))

RangeCheckLowerOnly(zq, z_grid) ==
    2 * zq[1] + (z_grid[2] - z_grid[1]) < 2 * z_grid[1]

\* zmin_q < zmin_grid or zmax_q > zmax_grid (decode.py:80-84); the 1e-10 of
\* the code is below the resolution of the model and changes no comparison
\* of whole micros
RangeExceeded(zq, z_grid) ==
    LET dz == z_grid[2] - z_grid[1]
    IN  \/ 2 * zq[1] + dz < 2 * z_grid[1]
        \/ 2 * zq[Len(zq)] - dz > 2 * z_grid[Len(z_grid)]

\* quantiles_to_binned(zq, zvector=z_grid, method='linear', force_range=force)
QuantilesToBinned(zq, z_grid, force) ==
    IF RangeExceeded(zq, z_grid) /\ ~force
    THEN [kind |-> "ValueError", pdf |-> <<>>, warned |-> FALSE]
    ELSE
    LET n      == Len(z_grid)
        dz_eff == IF n > 1 THEN z_grid[2] - z_grid[1] ELSE 0
        edge(k) == IF k = 0 THEN z_grid[1] - dz_eff \div 2
                   ELSE z_grid[k] + dz_eff \div 2
        F(k)   == InterpCdf(edge(k), zq)
        pdf    == [k \in 1..n |-> F(k) - F(k - 1)]
        mass   == F(n) - F(0)
    IN  [kind   |-> "ok",
         pdf    |-> IF mass * dz_eff > 0
                    THEN [k \in 1..n |-> FloorDiv(pdf[k] * ProbScale, mass)]
                    ELSE pdf,
         warned |-> RangeExceeded(zq, z_grid)]

----------------------------------------------------------------------------
(* decode_to_binned (decode.py:146-163).                                   *)

AnyNonZeroAlways(ws) == TRUE

\* np.any(int32col[i] != 0)
AnyNonZero(ws) == \E k \in 1..Len(ws) : ws[k] # 0

\* the stored rows: the all-zero packet, and the 12-byte packets of 7
\* quantiles of the histograms that have mass
StoredRows ==
    {ToWords(Zeros(12))}
    \cup {ToWords(EncodeQuantiles(BinnedToQuantiles(ZVector, h, 7).qs,
                                  12, FALSE, <<>>).packet)
          : h \in {g \in Histograms : Valid(g)}}

RECURSIVE StoredCols(_)
StoredCols(n) ==
    IF n = 0 THEN {<<>>}
    ELSE {<<>>} \cup {<<r>> \o s : r \in StoredRows, s \in StoredCols(n - 1)}

\* the target grids: the grid of the histograms, its bins 2 to 5, and its
\* bins 1 to 3
TargetGrids == {ZVector, SubSeq(ZVector, 2, 5), SubSeq(ZVector, 1, 3)}

BinnedInit ==
    /\ int32col \in StoredCols(MaxRows)
    /\ zvector \in TargetGrids
    /\ force_range \in BOOLEAN
    /\ PDF = <<>>
    /\ packetsize = 12
    /\ quantiles = <<>>
    /\ validate = FALSE
    /\ tolerance = <<>>
    /\ packet = <<>>
    /\ enc = NoCall
    /\ dec = NoDecode
    /\ data = NoData
    /\ ini_quantiles = 0
    /\ row = 0
    /\ Nquantiles = 0
    /\ lastgood = <<>>
    /\ exc = ""
    /\ attempts = <<>>
    /\ pc = "stored"

\* qrecovered = decode_quantiles(int32col[k].tobytes()) on a stored row, as a
\* caller of the codec may do
DecodeStored ==
    /\ pc = "stored"
    /\ \E k \in 1..Len(int32col) : packet' = FromWords(int32col[k])
    /\ dec' = DecodeQuantiles(packet')
    /\ pc' = "decoded"
    /\ UNCHANGED <<quantiles, packetsize, validate, tolerance, enc, batch, binned>>

\* decode.py:150-151: the output array
BinnedCall ==
    /\ pc = "stored"
    /\ PDF' = [k \in 1..Len(int32col) |-> Zeros(Len(zvector))]
    /\ row' = 1
    /\ pc' = "binned_row"
    /\ UNCHANGED <<codec, data, ini_quantiles, Nquantiles, lastgood, int32col,
                   exc, attempts, zvector, force_range>>

\* decode.py:153-163: one turn of the for loop, or the return behind it
BinnedRow ==
    /\ pc = "binned_row"
    /\ IF row > Len(int32col)
       THEN /\ pc' = "binned_done"
            /\ UNCHANGED <<packet, dec, row, PDF, exc>>
       ELSE IF ~AnyNonZero(int32col[row])
       THEN /\ row' = row + 1
            /\ pc' = "binned_row"
            /\ UNCHANGED <<packet, dec, PDF, exc>>
       ELSE
       LET p == FromWords(int32col[row])
           q == DecodeQuantiles(p)
           r == QuantilesToBinned(q.zs, zvector, force_range)
       IN  /\ packet' = p
           /\ dec' = q
           /\ IF q.kind # "ok"
              THEN /\ exc' = q.kind
                   /\ pc' = "binned_raised"
                   /\ UNCHANGED <<row, PDF>>
              ELSE IF r.kind # "ok"
              THEN /\ exc' = r.kind
                   /\ pc' = "binned_raised"
                   /\ UNCHANGED <<row, PDF>>
              ELSE /\ PDF' = [PDF EXCEPT ![row] = r.pdf]
                   /\ row' = row + 1
                   /\ pc' = "binned_row"
                   /\ UNCHANGED exc
    /\ UNCHANGED <<quantiles, packetsize, validate, tolerance, enc, data,
                   ini_quantiles, Nquantiles, lastgood, int32col, attempts,
                   zvector, force_range>>

BinnedNext == DecodeStored \/ BinnedCall \/ BinnedRow

BinnedSpec == BinnedInit /\ [][BinnedNext]_vars

----------------------------------------------------------------------------
(* Properties of the codec.                                                *)

Returned == enc.kind = "ok"

Decoded == pc = "decoded" /\ enc.kind = "ok" /\ dec.kind = "ok"

NonDecreasingSeq(s) == \A k \in 1..(Len(s) - 1) : s[k] <= s[k + 1]

C2_CountPreserved == Decoded => Len(dec.zs) = Len(quantiles)

\* C3: the decoded array of a returned packet is non-decreasing, the step to
\* the zmax of the header included.
C3_DecodedMonotone == Decoded => NonDecreasingSeq(dec.zs)

\* C4: every interior value decoded from a returned packet is within the
\* packet's eps (byte 0, in units of 1e-5) of the original interior quantile.
C4_InteriorWithinEps ==
    Decoded =>
        \A k \in 2..(Len(dec.zs) - 1) :
            Abs(dec.zs[k] - quantiles[k]) <= packet[1] * EpsUnit

\* a decoded interior value that is off the original, behind an escape record
C4_Witness ==
    /\ Decoded
    /\ \E k \in 2..(Len(dec.zs) - 1) :
          /\ dec.zs[k] # quantiles[k]
          /\ \E j \in 1..(k - 1) : dec.ds[j] > MaxDirect

C6_NeverSentinel ==
    Returned =>
        /\ packet[1] >= 1 /\ packet[1] <= 255
        /\ \E k \in 1..Len(packet) : packet[k] # 0

\* a returned packet that is zero in every byte but byte 0
C6_Witness ==
    /\ Returned
    /\ \A k \in 2..Len(packet) : packet[k] = 0

\* position in the payload of the record of the k-th delta of ds (1-based)
RECURSIVE RecordStart(_, _)
RecordStart(ds, k) ==
    IF k = 1 THEN 1
    ELSE RecordStart(ds, k - 1) + (IF ds[k - 1] <= MaxDirect THEN 1 ELSE 3)

\* C9: a delta d is written as one byte exactly when 0 <= d <= 254 and as
\* marker 255 plus d as big-endian 16-bit otherwise; a one-byte delta is never
\* 255; decode_quantiles reads every 3-byte record back as the same d.
C9_DeltaEscape ==
    Returned =>
        LET ds == enc.info.ds
            pl == enc.info.payload
        IN  /\ Len(pl) = RecordStart(ds, Len(ds) + 1) - 1
            /\ \A k \in 1..Len(ds) :
                  LET at == RecordStart(ds, k)
                  IN  /\ ds[k] >= 0
                      /\ ds[k] <= MaxDirect =>
                            pl[at] = ds[k] /\ pl[at] # Marker
                      /\ ds[k] > MaxDirect =>
                            /\ pl[at] = Marker
                            /\ 256 * pl[at + 1] + pl[at + 2] = ds[k]
                            /\ Decoded => k <= Len(dec.ds) /\ dec.ds[k] = ds[k]

\* a decoded packet with the smallest escaped delta, 255, in it
C9_Witness ==
    /\ Decoded
    /\ \E k \in 1..Len(dec.ds) : dec.ds[k] = Marker /\ enc.info.ds[k] = Marker

----------------------------------------------------------------------------
(* The reference parser of the payload, by record starts.                  *)

\* some byte of the payload at position i or later is not zero
LiveFrom(payload, i) == \E j \in i..Len(payload) : payload[j] # 0

\* position i starts a record: it is the first byte, or it follows a one-byte
\* record or a three-byte record that starts where bytes other than 0 remain
RECURSIVE RefStart(_, _)
RefStart(payload, i) ==
    \/ i = 1
    \/ /\ i >= 2
       /\ payload[i - 1] < Marker
       /\ LiveFrom(payload, i - 1)
       /\ RefStart(payload, i - 1)
    \/ /\ i >= 4
       /\ payload[i - 3] = Marker
       /\ RefStart(payload, i - 3)

\* the starts of the records the reference parser reads
RefRecords(payload) ==
    {i \in 1..Len(payload) : RefStart(payload, i) /\ LiveFrom(payload, i)}

\* the reference parser accepts: every escape record has its two bytes
RefAccepts(payload) ==
    \A i \in RefRecords(payload) : payload[i] = Marker => i + 2 <= Len(payload)

\* the delta of the record that starts at i
RefDelta(payload, i) ==
    IF payload[i] < Marker THEN payload[i]
    ELSE 256 * payload[i + 1] + payload[i + 2]

\* the k-th smallest element of a set of integers
RECURSIVE Kth(_, _)
Kth(S, k) ==
    LET lo == CHOOSE x \in S : \A y \in S : x <= y
    IN  IF k = 1 THEN lo ELSE Kth(S \ {lo}, k - 1)

RefDeltas(payload) ==
    LET S == RefRecords(payload)
    IN  [k \in 1..Cardinality(S) |-> RefDelta(payload, Kth(S, k))]

RECURSIVE SumFirst(_, _)
SumFirst(ds, k) == IF k = 0 THEN 0 ELSE SumFirst(ds, k - 1) + ds[k]

\* zmin, then zmin + eps x (d1 + ... + dk) for each k, then zmax
RefQuantiles(p) ==
    LET ds   == RefDeltas(SubSeq(p, 6, Len(p)))
        zmin == (p[2] + 256 * p[3]) * GridStep - GridOffset
        zmax == (p[4] + 256 * p[5]) * GridStep - GridOffset
    IN  [k \in 1..(Len(ds) + 2) |->
            IF k = 1 THEN zmin
            ELSE IF k = Len(ds) + 2 THEN zmax
            ELSE zmin + p[1] * EpsUnit * SumFirst(ds, k - 1)]

\* C10: decode_quantiles accepts a packet of 5 bytes or more exactly when the
\* reference parser accepts its payload, and then returns the reference
\* parser's deltas and quantiles; payload [10, 255, 0x01, 0x2C, 5] gives the
\* deltas 10, 300, 5; a zero byte with a nonzero byte after it is a delta 0.
C10_DecodeIsReference ==
    (pc = "decoded" /\ Len(packet) >= 5) =>
        LET payload == SubSeq(packet, 6, Len(packet))
        IN  /\ dec.kind = "ok" <=> RefAccepts(payload)
            /\ dec.kind = "ok" =>
                  /\ dec.ds = RefDeltas(payload)
                  /\ dec.zs = RefQuantiles(packet)
            /\ payload = <<10, 255, 1, 44, 5>> => dec.ds = <<10, 300, 5>>
            /\ dec.kind = "ok" =>
                  \A i \in 1..Len(payload) :
                      (RefStart(payload, i) /\ payload[i] = 0
                          /\ LiveFrom(payload, i))
                      => \E k \in 1..Len(dec.ds) :
                            dec.ds[k] = 0 /\ k < Len(dec.ds)

\* the packet of the example, decoded with eps code 1
C10_Witness ==
    /\ pc = "decoded"
    /\ packet = <<1, 50, 0, 81, 0, 10, 255, 1, 44, 5>>
    /\ dec.zs = <<0, 100, 3100, 3150, 6200>>

----------------------------------------------------------------------------
(* Properties of the batch encoder.                                        *)

\* row k of the batch has no density at all
ZeroMass(k) == \A b \in 1..Len(data.PDF[k]) : data.PDF[k][b] = 0

\* row k of the output is the all-zero packet
SentinelRow(k) == \A w \in 1..Len(int32col[k]) : int32col[k][w] = 0

\* C8: a histogram row of total density zero is skipped (no quantiles are
\* extracted from it, no encode is attempted), its output row is the all-zero
\* packet, and the batch returns one packet row per input row.
C8_ZeroRowsSkipped ==
    /\ pc \in {"attempt", "store"} => ~ZeroMass(row)
    /\ pc \in {"row", "attempt", "store", "batch_done"} =>
          /\ Len(int32col) = Len(data.PDF)
          /\ \A k \in 1..Len(int32col) :
                /\ 4 * Len(int32col[k]) = packetsize
                /\ ZeroMass(k) => SentinelRow(k)

\* a returned batch with a zero-mass row behind a row that was encoded
C8_Witness ==
    /\ pc = "batch_done"
    /\ Len(data.PDF) = 2
    /\ ~ZeroMass(1) /\ ~SentinelRow(1)
    /\ ZeroMass(2) /\ SentinelRow(2)

----------------------------------------------------------------------------
(* Properties of the decoders on the all-zero packet.                      *)

AllZero(s) == \A k \in 1..Len(s) : s[k] = 0

\* C7 as stated: decoding an all-zero packet gives an empty result or one
\* flagged as no data (here: no quantile array at all, or an exception).
C7_SentinelDecodesEmpty ==
    (pc = "decoded" /\ AllZero(packet)) => (dec.kind # "ok" \/ dec.zs = <<>>)

\* C7 as amended: decode_to_binned hands no all-zero packet to
\* decode_quantiles and leaves the row of an all-zero packet all zero: the
\* "no data" row; decode_quantiles itself returns [-0.01, -0.01] for it.
C7_BatchSentinel ==
    /\ pc \in {"binned_row", "binned_done", "binned_raised"} =>
          /\ packet # <<>> => ~AllZero(packet)
          /\ Len(PDF) = Len(int32col)
          /\ \A k \in 1..Len(int32col) :
                AllZero(int32col[k]) => AllZero(PDF[k])
    /\ (pc = "decoded" /\ AllZero(packet)) =>
          dec.kind = "ok" /\ dec.zs = <<-GridOffset, -GridOffset>>

\* a returned PDF array whose first row is the "no data" row of an all-zero
\* packet and whose second row is a decoded distribution
C7_Witness ==
    /\ pc = "binned_done"
    /\ Len(int32col) = 2
    /\ AllZero(int32col[1]) /\ AllZero(PDF[1])
    /\ ~AllZero(int32col[2]) /\ ~AllZero(PDF[2])

----------------------------------------------------------------------------
(* Properties of the eps selection of encode_quantiles.                    *)

\* the call of encode_quantiles got past the two eps checks
\* (encode.py:79-80, 86-87) and into the payload loop
PastEpsSelection ==
    enc.step \in {"pack_delta", "payload_too_long", "pack_endpoint", "decode",
                  "count", "max_of_empty", "tolerance_none", "tolerance",
                  "return"}

\* the deltas of ds that are written in escape form
Escapes(ds) == {k \in 1..Len(ds) : ~(0 <= ds[k] /\ ds[k] <= MaxDirect)}

\* C11: in every call that passes the eps selection, every delta the payload
\* loop writes in escape form is in 255..65535, so struct.pack('>H', d)
\* never overflows.
C11_EscapeFitsU16 ==
    PastEpsSelection =>
        \A k \in Escapes(enc.info.ds) :
            enc.info.ds[k] >= Marker /\ enc.info.ds[k] <= MaxEscape

\* the interior quantiles whose gap to the quantile in front of them is more
\* than 254 steps of the chosen eps
BigGaps ==
    {k \in 1..(Len(quantiles) - 2) :
        quantiles[k + 1] - quantiles[k] > MaxDirect * enc.info.eps_code * EpsUnit}

\* floor((L-(M+3))/2) of the call
Budget == (packetsize - (Len(quantiles) + 3)) \div 2

\* C12 as stated: in every call that passes the eps selection at most
\* maxBigGaps deltas are written in escape form, and the payload-too-long
\* failure is never reached.
C12_EscapeBudget ==
    PastEpsSelection =>
        /\ Cardinality(Escapes(enc.info.ds)) <= Budget
        /\ enc.step # "payload_too_long"

\* C12 as amended: in every call that passes the eps selection at most
\* maxBigGaps of the M-2 gaps between original quantiles exceed 254 eps; the
\* payload is M-2 bytes plus 2 per escape record, so it fits in L-5 bytes
\* exactly when at most maxBigGaps deltas are escaped; the deltas are taken
\* from the reconstructed value, so more of them may be escaped than gaps are
\* big, and then the call fails as payload too long.
C12_GapBudget ==
    PastEpsSelection =>
        LET escaped == Cardinality(Escapes(enc.info.ds))
        IN  /\ Cardinality(BigGaps) <= Budget
            /\ enc.info.max_big_gaps = Budget
            /\ enc.step # "pack_delta" =>
                  /\ Len(enc.info.payload) = Len(quantiles) - 2 + 2 * escaped
                  /\ enc.step = "payload_too_long" <=> escaped > Budget
            /\ Returned => escaped <= Budget

\* a call that fails as payload too long on a delta that is escaped though
\* its gap fits in one byte
C12_Witness ==
    /\ enc.step = "payload_too_long"
    /\ \E k \in Escapes(enc.info.ds) : k \notin BigGaps

\* the call got past the check of eps_min (encode.py:79-80)
PastEpsMin ==
    enc.step \in {"eps_code"} \/ PastEpsSelection

\* gaps[-1]: the largest gap in front of an interior quantile
LargestGap ==
    SetMax({quantiles[k + 1] - quantiles[k] : k \in 1..(Len(quantiles) - 2)})

\* C13 as stated: whenever the check of eps_min passes, the code of the final
\* eps is at most 255 and the check of the eps code never fails.
C13_EpsCodeNeverFails ==
    PastEpsMin => enc.info.eps_code <= Marker /\ enc.step # "eps_code"

\* C13 as amended: behind a passed check of eps_min, the check of the eps
\* code fails exactly when the two-byte bound eps_min2 of the largest gap
\* has a code above 255, that is when the largest gap exceeds 65535 x 2.55e-3;
\* this takes maxBigGaps >= 1; otherwise the code of the final eps is in
\* 1..255.
C13_EpsCodeCheck ==
    PastEpsMin =>
        /\ enc.step = "eps_code" <=> LargestGap > MaxEscape * Marker * EpsUnit
        /\ enc.step = "eps_code" =>
              /\ enc.kind = "ValueError"
              /\ Budget >= 1
              /\ enc.info.eps_code > Marker
        /\ enc.step # "eps_code" =>
              enc.info.eps_code >= 1 /\ enc.info.eps_code <= Marker

\* a call that fails the check of the eps code
C13_Witness ==
    /\ enc.step = "eps_code"
    /\ LargestGap > MaxEscape * Marker * EpsUnit

----------------------------------------------------------------------------
(* Properties of the search loop of _batch_encode.                         *)

\* the attempts of the row's search that returned a packet
Succeeded == {k \in 1..Len(attempts) : attempts[k].kind = "ok"}

\* C14: every encode attempt of the search loop either returns or raises
\* ValueError, the exception the loop catches; no attempt raises an exception
\* of another kind.
C14_OnlyValueError ==
    \A k \in 1..Len(attempts) : attempts[k].kind \in {"ok", "ValueError"}

\* C15: an attempt that fails (ValueError) with a last good packet ends the
\* search with that packet and leaves Nquantiles alone; one that fails without
\* a last good packet lowers Nquantiles by exactly 2 and the loop goes on;
\* Nquantiles is never lowered while a last good packet is held.
C15_FailureHandling ==
    [][(pc = "attempt" /\ attempts' # attempts) =>
          /\ enc'.kind = "ValueError" =>
                IF lastgood # <<>>
                THEN /\ pc' = "store"
                     /\ packet' = lastgood
                     /\ Nquantiles' = Nquantiles
                ELSE /\ pc' = "attempt"
                     /\ Nquantiles' = Nquantiles - 2
                     /\ lastgood' = <<>>
          /\ lastgood # <<>> => Nquantiles' >= Nquantiles]_vars

\* a search that lowered Nquantiles after a first failure, succeeded, failed
\* again and fell back on the last good packet
C15_Witness ==
    /\ pc = "store"
    /\ enc.kind = "ValueError"
    /\ lastgood # <<>> /\ packet = lastgood
    /\ attempts[1].kind = "ValueError"
    /\ Nquantiles = ini_quantiles

\* C16: an attempt that returns ends the search exactly when its payload
\* length is packetsize-5, with its packet as the row's packet; one that
\* returns a shorter payload is remembered as lastgood, Nquantiles goes up by
\* exactly 2 and the loop makes another attempt.
C16_SuccessHandling ==
    [][(pc = "attempt" /\ attempts' # attempts /\ enc'.kind = "ok") =>
          /\ pc' = "store" <=> enc'.L = packetsize - 5
          /\ pc' = "store" =>
                packet' = enc'.packet /\ Nquantiles' = Nquantiles
          /\ enc'.L < packetsize - 5 =>
                /\ lastgood' = enc'.packet
                /\ Nquantiles' = Nquantiles + 2
                /\ pc' = "attempt"]_vars

\* a search that ends on a payload of packetsize-5 bytes after two attempts
\* with a shorter one
C16_Witness ==
    /\ pc = "store"
    /\ enc.kind = "ok" /\ enc.L = packetsize - 5
    /\ Len(attempts) = 3
    /\ attempts[1].L < attempts[2].L /\ attempts[2].L < packetsize - 5
    /\ lastgood = attempts[2].packet

\* the packet encode_quantiles makes of the N quantiles of the row in work
PacketOf(N) ==
    EncodeQuantiles(BinnedToQuantiles(data.zvector, data.PDF[row], N).qs,
                    packetsize, validate, tolerance)

\* C17: when the search of a row ends with a packet, that packet is the one
\* an attempt of this search returned for this row, with a payload of at most
\* packetsize-5 bytes, and no attempt of the search with more quantiles
\* returned a packet; that packet becomes the row of the output.
C17_BestAttemptWins ==
    /\ pc = "store" =>
          \E k \in Succeeded :
              /\ attempts[k].packet = packet
              /\ attempts[k].L <= packetsize - 5
              /\ PacketOf(attempts[k].M).kind = "ok"
              /\ PacketOf(attempts[k].M).packet = packet
              /\ \A j \in Succeeded : attempts[j].M <= attempts[k].M
    /\ (pc = "row" /\ row >= 2 /\ Valid(data.PDF[row - 1])) =>
          int32col[row - 1] = ToWords(packet)

\* a search that ends on a failed attempt after two attempts that returned
\* packets with different numbers of quantiles
C17_Witness ==
    /\ pc = "store"
    /\ enc.kind = "ValueError"
    /\ Len(attempts) = 3
    /\ attempts[1].kind = "ok" /\ attempts[2].kind = "ok"
    /\ attempts[1].M < attempts[2].M
    /\ attempts[1].packet # attempts[2].packet

\* C18: the search of a row is cut off after a fixed number of attempts and
\* then ends with the best packet found: a search that has retried never
\* ends without a packet for its row.
C18_SearchEndsWithPacket ==
    (Len(attempts) >= 2 /\ pc \in {"store", "batch_raised"}) =>
        /\ pc = "store"
        /\ Succeeded # {}

----------------------------------------------------------------------------
(* Properties of the checks of encode_quantiles.                           *)

\* the call failed in its validation (encode.py:111-117)
FailedValidation ==
    enc.step \in {"decode", "count", "max_of_empty", "tolerance_none",
                  "tolerance"}

\* C19: with validation on, encode_quantiles returns a packet only if the
\* packet decodes to as many values as were encoded, each interior one within
\* the tolerance of the original, and a call that fails in its validation
\* fails with ValueError, also when the batch call leaves the tolerance unset.
C19_ValidationRecoverable ==
    (validate /\ enc.kind # "none") =>
        /\ Returned =>
              LET r == DecodeQuantiles(enc.packet)
              IN  /\ r.kind = "ok"
                  /\ Len(r.zs) = Len(quantiles)
                  /\ tolerance # <<>>
                  /\ \A k \in 2..(Len(quantiles) - 1) :
                        Abs(quantiles[k] - r.zs[k]) <= tolerance[1]
        /\ FailedValidation => enc.kind = "ValueError"

\* C20: encode_quantiles raises the too-many-quantiles ValueError exactly when
\* M > L-3, before it computes anything else; for every other M the
\* max_big_gaps it computes is floor((L-(M+3))/2) and is at least 0.
C20_TooManyRejected ==
    (pc \in {"encoded", "raised", "decoded"}) =>
        /\ enc.step = "too_many" <=> Len(quantiles) > packetsize - 3
        /\ enc.step = "too_many" =>
              enc.kind = "ValueError" /\ enc.info = NoInfo /\ packet = <<>>
        /\ enc.step \notin {"too_many", "endpoints"} =>
              /\ enc.info.max_big_gaps = Budget
              /\ enc.info.max_big_gaps >= 0

\* a call rejected with one quantile too many, M = L-2
C20_Witness ==
    /\ pc = "raised"
    /\ enc.step = "too_many"
    /\ Len(quantiles) = packetsize - 2

----------------------------------------------------------------------------
(* Properties of the batch call.                                           *)

\* byte j (1-based) of the row of words ws, the words taken as big-endian
\* two's complement
ByteOf(ws, j) ==
    LET w == ws[(j + 3) \div 4]
        u == (j + 3) % 4
    IN  IF u = 0 THEN (IF w < 0 THEN 256 + w \div 16777216 ELSE w \div 16777216)
        ELSE IF u = 1 THEN (w \div 65536) % 256
        ELSE IF u = 2 THEN (w \div 256) % 256
        ELSE w % 256

\* C21: a batch call with a packetsize that is no multiple of 4, or with
\* ini_quantiles above packetsize-3, raises ValueError before any row is
\* worked on and nothing is returned; in an accepted call every row of the
\* output is packetsize/4 words, and a stored row holds the packetsize bytes of
\* its packet in order, as big-endian 32-bit words.
C21_BatchArguments ==
    (pc \in {"batch_raised", "row", "attempt", "store", "batch_done"}) =>
        IF packetsize % 4 # 0 \/ ini_quantiles > packetsize - 3
        THEN /\ pc = "batch_raised"
             /\ exc = "ValueError"
             /\ int32col = <<>> /\ attempts = <<>> /\ row = 0
        ELSE /\ Len(int32col) = Len(data.PDF)
             /\ \A k \in 1..Len(int32col) :
                   Len(int32col[k]) * 4 = packetsize
             /\ (pc = "row" /\ row >= 2 /\ Valid(data.PDF[row - 1])) =>
                   /\ Len(packet) = packetsize
                   /\ \A j \in 1..packetsize :
                         ByteOf(int32col[row - 1], j) = packet[j]

\* a returned batch whose last row holds a packet with a byte of 128 or more
\* at the head of a word, and bytes that differ within a word
C21_Witness ==
    /\ pc = "batch_done"
    /\ Len(int32col) >= 1
    /\ \E w \in 1..Len(int32col[Len(int32col)]) :
          int32col[Len(int32col)][w] < 0
    /\ packet[1] # packet[4]

\* a batch call refused for its ini_quantiles, of packetsize-2
C21_Refused ==
    /\ pc = "batch_raised"
    /\ packetsize % 4 = 0
    /\ ini_quantiles = packetsize - 2

\* C22: in every attempt of a row's search, and whenever the loop is about
\* to make one, Nquantiles has the parity of ini_quantiles.
C22_ParityKept ==
    /\ \A k \in 1..Len(attempts) : attempts[k].M % 2 = ini_quantiles % 2
    /\ pc = "attempt" => Nquantiles % 2 = ini_quantiles % 2

\* a search that went down from ini_quantiles and up again
C22_Witness ==
    /\ Len(attempts) >= 3
    /\ attempts[2].M < attempts[1].M
    /\ attempts[3].M > attempts[2].M

----------------------------------------------------------------------------
(* Properties of the reconstruction on a grid.                             *)

\* the quantiles zs reach below the first bin of the grid or above its last
\* one (the bins are dz wide around the values of the grid)
OutsideGrid(zs, grid) ==
    LET dz == grid[2] - grid[1]
    IN  \/ 2 * zs[1] < 2 * grid[1] - dz
        \/ 2 * zs[Len(zs)] > 2 * grid[Len(grid)] + dz

\* the quantiles decode_quantiles returns for row k of int32col
RowQuantiles(k) == DecodeQuantiles(FromWords(int32col[k])).zs

RECURSIVE SumSeq(_)
SumSeq(s) == IF s = <<>> THEN 0 ELSE Head(s) + SumSeq(Tail(s))

C23_Forced ==
    /\ pc = "binned_done"
    /\ force_range
    /\ \E k \in 1..Len(int32col) :
          AnyNonZero(int32col[k]) /\ OutsideGrid(RowQuantiles(k), zvector)

----------------------------------------------------------------------------
(* Row independence of the batch encoder.                                  *)

\* The search of encode.py:144-168 as a function of one row Pz and the
\* arguments of the batch alone: the packet it ends with, or the exception.
RECURSIVE RowSearch(_, _, _, _, _, _, _)
RowSearch(zv, Pz, L, val, tol, N, best) ==
    LET ext == BinnedToQuantiles(zv, Pz, N)
        res == EncodeQuantiles(ext.qs, L, val, tol)
    IN  IF ext.kind # "ok" THEN [kind |-> ext.kind, packet |-> <<>>]
        ELSE IF res.kind = "ValueError"
             THEN IF best # <<>> THEN [kind |-> "ok", packet |-> best]
                  ELSE RowSearch(zv, Pz, L, val, tol, N - 2, best)
        ELSE IF res.kind # "ok" THEN [kind |-> res.kind, packet |-> <<>>]
        ELSE IF res.L < L - 5
             THEN RowSearch(zv, Pz, L, val, tol, N + 2, res.packet)
        ELSE [kind |-> "ok", packet |-> res.packet]

\* the row of the output for the histogram Pz alone
RowResult(Pz) ==
    IF ~Valid(Pz) THEN Zeros(packetsize \div 4)
    ELSE ToWords(RowSearch(data.zvector, Pz, packetsize, validate, tolerance,
                           ini_quantiles, <<>>).packet)

\* C24: every row of the output that has been written is the result of the
\* search on that row's histogram alone, with the arguments of the batch,
\* whatever the other rows are; rows not yet reached are zero; every search
\* starts from ini_quantiles with no last good packet.
C24_RowIndependence ==
    /\ pc \in {"row", "attempt", "store", "batch_done"} =>
          \A k \in 1..Len(int32col) :
              int32col[k] = IF k < row THEN RowResult(data.PDF[k])
                            ELSE Zeros(packetsize \div 4)
    /\ (pc = "attempt" /\ attempts = <<>>) =>
          Nquantiles = ini_quantiles /\ lastgood = <<>>

\* a returned batch of two rows with different packets, the first search
\* ending with a last good packet, the second starting with a failure
C24_Witness ==
    /\ pc = "batch_done"
    /\ Len(int32col) = 2
    /\ ~SentinelRow(1) /\ ~SentinelRow(2)
    /\ int32col[1] # int32col[2]
    /\ lastgood # <<>>
    /\ attempts[1].kind = "ValueError"

----------------------------------------------------------------------------
(* Encoder and decoder side by side.                                       *)

\* C25: for a returned packet, the running value prev of the payload loop
\* after the k-th interior quantile is zmin_rec + eps x (d1 + ... + dk), and
\* it is the k-th interior value that decode_quantiles reconstructs from the
\* packet.
C25_SameAccumulation ==
    Decoded =>
        LET prevs    == enc.info.prevs
            zmin_rec == enc.info.xmin_int * GridStep - GridOffset
            eps      == enc.info.eps_code * EpsUnit
        IN  \A k \in 1..Len(prevs) :
                /\ prevs[k] = zmin_rec + eps * SumFirst(enc.info.ds, k)
                /\ k + 1 < Len(dec.zs)
                /\ dec.zs[k + 1] = prevs[k]

----------------------------------------------------------------------------
(* Properties of the batch encoder on samples.                             *)

\* C26: a row of samples with at least one finite sample is encoded from its
\* finite samples: only a row without any finite sample is left as the
\* all-zero packet.
C26_FiniteSamplesEncoded ==
    pc = "batch_done" =>
        \A k \in 1..Len(int32col) :
            AnyFinite(data.samples[k]) => ~SentinelRow(k)

----------------------------------------------------------------------------
(* Termination of the search of _batch_encode.                             *)

\* the attempts of the current search: failures on the way down, M falling
\* by 2; then M only rises after a success; every M within -1..L-1
SearchShape ==
    /\ \A i \in 1..Len(attempts) :
           /\ attempts[i].M >= -1
           /\ attempts[i].M <= packetsize - 1
           /\ attempts[i].kind = "ok" => attempts[i].L < packetsize - 4
    /\ \A i \in 1..Len(attempts), j \in 1..Len(attempts) :
           (i < j /\ attempts[i].kind = "ok") =>
               /\ attempts[j].M > attempts[i].M
               /\ attempts[i].L < packetsize - 5
    /\ \A i \in 1..Len(attempts) - 1 :
           attempts[i].kind # "ok" =>
               /\ attempts[i].kind = "ValueError"
               /\ attempts[i + 1].M < attempts[i].M
               /\ \A h \in 1..i : attempts[h].kind # "ok"

\* C27: the search of every row ends: M never decreases after a success, a
\* search makes no more attempts than there are values of M on the way down
\* and on the way up, and a search that has started leaves the loop, with a
\* packet to store or with a propagated error.
C27_SearchTerminates ==
    /\ [](SearchShape /\ Len(attempts) <= packetsize + 1)
    /\ (pc = "attempt" ~> pc \in {"store", "batch_raised"})

\* a search that went down, found a packet, went up and ended on a failure
C27_Witness ==
    /\ pc = "store"
    /\ Len(attempts) >= 3
    /\ attempts[1].kind = "ValueError"
    /\ attempts[Len(attempts)].kind = "ValueError"
    /\ \E i \in 2..Len(attempts) - 1 : attempts[i].kind = "ok"

----------------------------------------------------------------------------
(* Payload length and the parity of the number of quantiles.               *)

\* C28: a successful attempt with M quantiles has a payload of
\* (M-2) + 2 x (number of escape records) bytes, so an attempt fills the
\* packet exactly only when M has the parity of L-3; with L a multiple of 4
\* and an even initial guess no attempt fills the packet exactly and a packet
\* is stored only through the fallback to the last good packet.
C28_ExactFillParity ==
    /\ (attempts # <<>> /\ enc.kind = "ok") =>
           /\ Len(quantiles) = attempts[Len(attempts)].M
           /\ enc.L = Len(enc.info.payload)
           /\ enc.L = (Len(quantiles) - 2)
                      + 2 * Cardinality(Escapes(enc.info.ds))
    /\ \A i \in Succeeded :
           attempts[i].L = packetsize - 5 =>
               attempts[i].M % 2 = (packetsize - 3) % 2
    /\ (packetsize % 4 = 0 /\ ini_quantiles % 2 = 0) =>
           /\ \A i \in Succeeded : attempts[i].L # packetsize - 5
           /\ pc = "store" =>
                  /\ enc.kind = "ValueError"
                  /\ lastgood # <<>>
                  /\ packet = lastgood

\* a search with an even initial guess that stored the last good packet, an
\* attempt with an escape record among its successes
C28_Witness ==
    /\ pc = "store"
    /\ ini_quantiles % 2 = 0
    /\ packet = lastgood
    /\ \E i \in Succeeded :
           /\ Marker \in {attempts[i].packet[k] : k \in 6..packetsize}
           /\ attempts[i].L > attempts[i].M - 2

----------------------------------------------------------------------------
(* The gap-threshold lookup.                                               *)

\* C30: for every call of encode_quantiles whose quantile count M passes the
\* M <= L-3 check, the lookup gaps[-max_big_gaps-1] is within the M-2 interior
\* gaps (max_big_gaps + 1 <= M-2) and does not raise.
C30_GapLookupInRange ==
    (enc.kind # "none" /\ enc.step \notin {"too_many", "endpoints"}) =>
        /\ MaxBigGaps(Len(quantiles), packetsize) + 1 <= Len(quantiles) - 2
        /\ enc.step # "gapthreshold"

----------------------------------------------------------------------------
(* The sign of the deltas.                                                 *)

\* C29: for a non-decreasing quantile array every delta the payload loop
\* computes is >= 0, so no negative value is packed as unsigned.
C29_DeltasNonNegative ==
    /\ \A k \in 1..Len(enc.info.ds) : enc.info.ds[k] >= 0
    /\ NonDecreasingSeq(quantiles)

====
